---- MODULE Spec2Model ----
(***************************************************************************)
(* Out-of-band invitation manager (OutOfBandManager, manager.py).          *)
(*                                                                         *)
(* Two agents are modelled: the inviter, which runs create_invitation and  *)
(* receive_reuse_message, and the invitee, which runs receive_invitation,  *)
(* receive_reuse_accepted_message and receive_problem_report.  Each agent  *)
(* has its own record store; they are coupled only by the messages in      *)
(* flight.  A connection is named by the channel it is an end of: the      *)
(* existing channel between the two agents is connection ExistingConn on   *)
(* both sides.  The Python value None is the string "none" for states and  *)
(* the number NoId for identifiers.                                        *)
(***************************************************************************)
EXTENDS Integers, Sequences, FiniteSets, TLC

\* ------------------------------------------------------------------ bounds
MaxAttach == 2
MaxProtos == 2
MaxDeliveries == 2
MaxFailures == 1

\* --------------------------------------------------------------- constants
NoId == 0

STATE_INITIAL == "initial"
STATE_AWAIT_RESPONSE == "await_response"
STATE_ACCEPTED == "reuse_accepted"
STATE_NOT_ACCEPTED == "reuse_not_accepted"
STATE_DONE == "done"
ROLE_SENDER == "sender"
ROLE_RECEIVER == "receiver"

\* Handshake protocol names: the two HSProto members and a name HSProto.get
\* does not know.
HSProtoNames == {"RFC23", "RFC160"}
ProtoNames == HSProtoNames \cup {"OTHER"}

\* Sequences over S of length at most n.
SeqUpTo(S, n) == UNION {[1..k -> S] : k \in 0..n}

Range(s) == {s[i] : i \in DOMAIN s}

\* ---------------------------------------------------------------- state
VARIABLES
    \* inviter's store
    oobA,        \* OobRecords of the inviter, by invitation message id
    connA,       \* ConnRecords of the inviter, by connection id
    keysA,       \* number of keys create_invitation created in the inviter's wallet
    \* the create_invitation call
    cin,         \* its arguments and the settings it reads
    cres,        \* CreateIdle before the call, then its outcome
    \* invitee's store
    oobB,        \* OobRecords of the invitee, by oob id
    connB,       \* ConnRecords of the invitee, by connection id
    keysB,       \* number of keys receive_invitation created in the invitee's wallet
    \* the receive_invitation call
    inv,         \* the invitation and the arguments of the call
    pc,          \* position of the call
    rec,         \* its local oob_record (the in-memory copy)
    conn_rec,    \* its local conn_rec (a connection id, NoId for None)
    ret,         \* "running", "returned" or the name of the error raised
    sub,         \* the event-bus subscription of _wait_for_reuse_response
    csub,        \* the event-bus subscription of _wait_for_conn_rec_active
    \* the wire and the observable effects
    net,         \* messages sent, each with the number of times it was delivered
    notes,       \* number of notifications emitted, by kind
    invoked,     \* handshake capabilities invoked, in order
    dispatched,  \* number of attached requests handed to the message processor
    hist         \* history of the run (what failed, what timed out, ...)

createVars == <<oobA, connA, keysA, cin, cres>>
inviteeVars == <<oobB, connB, keysB, inv, pc, rec, conn_rec, ret, sub, csub>>
effectVars == <<net, notes, invoked, dispatched>>
vars == <<createVars, inviteeVars, effectVars, hist>>

\* ------------------------------------------------------- create_invitation
AttachTypes == {"credential-offer", "present-proof", "unknown"}

\* One attachment reference {"id", "type"}; found: a V1 or V2 exchange record
\* with that id exists.
AttachRefs == [type : AttachTypes, found : BOOLEAN]

CreateInputs ==
    [public : BOOLEAN, multi_use : BOOLEAN, metadata : BOOLEAN,
     hs_protos : SeqUpTo(HSProtoNames, 1),
     attachments : SeqUpTo(AttachRefs, MaxAttach),
     public_invites : BOOLEAN, public_did : BOOLEAN,
     mediation : BOOLEAN]

\* Variant of FirstBadAttachment that accepts any attachment type.
RECURSIVE FirstMissingAttachment(_, _)
FirstMissingAttachment(atts, i) ==
    IF i > Len(atts) THEN 0
    ELSE IF ~atts[i].found THEN i
    ELSE FirstMissingAttachment(atts, i + 1)

\* Index of the first attachment whose resolution raises, 0 if none.
RECURSIVE FirstBadAttachment(_, _)
FirstBadAttachment(atts, i) ==
    IF i > Len(atts) THEN 0
    ELSE IF atts[i].type = "unknown" \/ ~atts[i].found THEN i
    ELSE FirstBadAttachment(atts, i + 1)

\* The outcome of create_invitation on arguments in: the error raised ("none"
\* on success) and what has been persisted by then.
\*   key   : a signing key was created in the wallet
\*   conn  : a connection record was saved
\*   oob   : the OobRecord was saved
\*   ret   : the state of the returned InvitationRecord, "none" if it raised
CreateFail(err, key, conn) ==
    [err |-> err, key |-> key, conn |-> conn, oob |-> FALSE, ret |-> "none"]

CreateIdle == CreateFail("idle", FALSE, FALSE)

NewConnRecord(in, id) ==
    [invitation_msg_id |-> id,
     invitation_mode |-> IF in.multi_use /\ ~in.public THEN "multi" ELSE "once",
     state |-> "invitation"]

NewSenderOob(id, connId) ==
    [role |-> ROLE_SENDER, state |-> STATE_AWAIT_RESPONSE,
     invi_msg_id |-> id, reuse_msg_id |-> NoId,
     connection_id |-> connId, our_recipient_key |-> TRUE]

CreateInvitationResult(in) ==
    LET bad == FirstBadAttachment(in.attachments, 1)
        hs == Len(in.hs_protos) > 0
        ok == [err |-> "none", key |-> ~in.public, conn |-> hs,
               oob |-> TRUE, ret |-> STATE_INITIAL]
    IN  IF ~hs /\ Len(in.attachments) = 0
            THEN CreateFail("OutOfBandManagerError", FALSE, FALSE)
        ELSE IF in.public /\ in.multi_use
            THEN CreateFail("OutOfBandManagerError", FALSE, FALSE)
        ELSE IF in.public /\ in.metadata
            THEN CreateFail("OutOfBandManagerError", FALSE, FALSE)
        ELSE IF Len(in.attachments) > 0 /\ in.multi_use
            THEN CreateFail("OutOfBandManagerError", FALSE, FALSE)
        ELSE IF bad # 0
            THEN IF in.attachments[bad].type = "unknown"
                 THEN CreateFail("OutOfBandManagerError", FALSE, FALSE)
                 ELSE CreateFail("StorageNotFoundError", FALSE, FALSE)
        ELSE IF in.public
            THEN IF ~in.public_invites \/ ~in.public_did
                 THEN CreateFail("OutOfBandManagerError", FALSE, FALSE)
                 ELSE ok
        ELSE IF in.mediation /\ ~hs
            \* conn_rec is None at conn_rec.metadata_set: the key exists by then
            THEN CreateFail("AttributeError", TRUE, FALSE)
        ELSE ok

\* Identifiers of the invitation and connection record create_invitation makes.
CreatedInvId == 1
CreatedConnId == 2
ExistingConn == 1

\* The inviter's stores once create_invitation on arguments in ended with
\* outcome r.
ConnAfterCreate(conns, in, r) ==
    IF ~r.conn THEN conns
    ELSE [c \in DOMAIN conns \cup {CreatedConnId} |->
            IF c = CreatedConnId THEN NewConnRecord(in, CreatedInvId) ELSE conns[c]]

OobAfterCreate(oobs, in, r) ==
    IF ~r.oob THEN oobs
    ELSE [i \in DOMAIN oobs \cup {CreatedInvId} |->
            IF i = CreatedInvId
            THEN NewSenderOob(CreatedInvId, IF r.conn THEN CreatedConnId ELSE NoId)
            ELSE oobs[i]]

\* create_invitation, applied to the arguments cin on the inviter's store.
CreateInvitation ==
    /\ cres = CreateIdle
    /\ LET r == CreateInvitationResult(cin)
       IN  /\ cres' = r
           /\ keysA' = IF r.key THEN keysA + 1 ELSE keysA
           /\ connA' = ConnAfterCreate(connA, cin, r)
           /\ oobA' = OobAfterCreate(oobA, cin, r)
    /\ UNCHANGED <<cin, inviteeVars, effectVars, hist>>

\* ------------------------------------------------------------ record store
NullOob ==
    [role |-> "none", state |-> "none", invi_msg_id |-> NoId,
     reuse_msg_id |-> NoId, connection_id |-> NoId, our_recipient_key |-> FALSE]

Put(store, id, r) == [i \in DOMAIN store \cup {id} |-> IF i = id THEN r ELSE store[i]]

Terminal == {STATE_ACCEPTED, STATE_NOT_ACCEPTED}

\* --------------------------------------------------------------- event bus
SubClosed == [open |-> FALSE, fired |-> FALSE, payload |-> NullOob]
SubOpen == [open |-> TRUE, fired |-> FALSE, payload |-> NullOob]

\* A record save publishes the record under its state when the state differs
\* from the one the record was loaded with; an open subscription of
\* _wait_for_reuse_response takes the first such event whose topic is one of
\* the two reuse outcomes.
Publish(s, old, new) ==
    IF s.open /\ ~s.fired /\ old.state # new.state /\ new.state \in Terminal
    THEN [open |-> TRUE, fired |-> TRUE, payload |-> new]
    ELSE s

\* -------------------------------------------------------------------- wire
Msg(type, thid, pthid) == [type |-> type, thid |-> thid, pthid |-> pthid]

Send(n, m) == IF m \in DOMAIN n THEN n ELSE Put(n, m, 0)

Deliverable(type) == {m \in DOMAIN net : m.type = type /\ net[m] < MaxDeliveries}

Delivered(n, m) == [n EXCEPT ![m] = @ + 1]

\* ------------------------------------------------------ receive_invitation
ForeignInvId == 2
OobIdB == 1
NewConnB == 2
NewReuseMsgId == 1

InvInputsWith(protoLists) ==
    [id : {CreatedInvId, ForeignInvId}, services : 0..2, did : BOOLEAN,
     protos : protoLists,
     attach : {"none", "wellformed", "malformed"},
     use_existing : BOOLEAN]

\* Every list of handshake protocols up to MaxProtos names.
InvInputs == InvInputsWith(SeqUpTo(ProtoNames, MaxProtos))

\* The invitations of the reuse scenarios: no protocol, a supported one, an
\* unsupported one.
ReuseInvInputs == InvInputsWith({<<>>, <<"RFC23">>, <<"OTHER">>})

\* Points at which a collaborator (store, wallet, responder, resolver) may fail.
NoFailure == "none"

NewReceiverOob(i, connId) ==
    [role |-> ROLE_RECEIVER, state |-> STATE_INITIAL,
     invi_msg_id |-> i.id, reuse_msg_id |-> NoId,
     connection_id |-> connId, our_recipient_key |-> FALSE]

\* Variant of InvitationValid without the second check.
InvitationValidServicesOnly(i) == i.services = 1

\* The checks of lines 425-432.
InvitationValid(i) ==
    /\ i.services = 1
    /\ ~(i.attach = "none" /\ Len(i.protos) = 0)

\* Variant of FindExistingConnection that ignores use_existing_connection.
FindExistingConnectionAlways(i) ==
    IF i.did /\ ExistingConn \in DOMAIN connB THEN ExistingConn ELSE NoId

\* find_existing_connection for the invitation's public DID.
FindExistingConnection(i) ==
    IF i.did /\ i.use_existing /\ ExistingConn \in DOMAIN connB
    THEN ExistingConn ELSE NoId

\* receive_invitation ends by raising err; injected tells whether a
\* collaborator's failure was the cause.
Raise(err, injected) ==
    /\ ret' = err
    /\ pc' = "raised"
    /\ hist' = [hist EXCEPT !.failed = TRUE,
                            !.nfail = IF injected THEN @ + 1 ELSE @]

\* A collaborator may fail while fewer than MaxFailures failures have happened.
MayFail == hist.nfail < MaxFailures

\* Variant of ReceiveInvitationStart that starts the reuse whenever an
\* existing connection was found, attached requests or not.
ReceiveInvitationStartReuseAlways ==
    /\ pc = "idle"
    /\ IF ~InvitationValid(inv)
       THEN /\ Raise("OutOfBandManagerError", FALSE)
            /\ UNCHANGED <<oobB, rec, conn_rec>>
       ELSE LET c == FindExistingConnection(inv)
                r == NewReceiverOob(inv, c)
            IN  /\ conn_rec' = c
                /\ rec' = r
                /\ oobB' = Put(oobB, OobIdB, r)
                /\ pc' = IF c # NoId THEN "reuse_send" ELSE "handshake"
                /\ hist' = [hist EXCEPT !.looked_up = inv.did /\ inv.use_existing]
                /\ UNCHANGED ret
    /\ UNCHANGED <<createVars, connB, keysB, inv, sub, csub, effectVars>>

\* receive_invitation up to and including the first save of the OobRecord.
ReceiveInvitationStart ==
    /\ pc = "idle"
    /\ IF ~InvitationValid(inv)
       THEN /\ Raise("OutOfBandManagerError", FALSE)
            /\ UNCHANGED <<oobB, rec, conn_rec>>
       ELSE LET c == FindExistingConnection(inv)
                r == NewReceiverOob(inv, c)
            IN  /\ conn_rec' = c
                /\ rec' = r
                /\ oobB' = Put(oobB, OobIdB, r)
                /\ pc' = IF c # NoId /\ inv.attach = "none"
                         THEN "reuse_send" ELSE "handshake"
                /\ hist' = [hist EXCEPT !.looked_up = inv.did /\ inv.use_existing]
                /\ UNCHANGED ret
    /\ UNCHANGED <<createVars, connB, keysB, inv, sub, csub, effectVars>>

\* ------------------------------------------- _create_handshake_reuse_message
\* Lines 807-818: build the reuse message, fetch the targets, send.
ReuseSend ==
    /\ pc = "reuse_send"
    /\ \/ /\ net' = Send(net, Msg("reuse", NewReuseMsgId, rec.invi_msg_id))
          /\ pc' = "reuse_save"
          /\ hist' = [hist EXCEPT !.reuse_sent = TRUE]
          /\ UNCHANGED ret
       \/ /\ MayFail
          /\ Raise("OutOfBandManagerError", TRUE)
          /\ UNCHANGED net
    /\ UNCHANGED <<createVars, oobB, connB, keysB, inv, rec, conn_rec, sub, csub,
                   notes, invoked, dispatched>>

\* Variant of WithReuse that does not store the reuse message id.
WithReuseStateOnly(r, id) == [r EXCEPT !.state = STATE_AWAIT_RESPONSE]

\* The record as _create_handshake_reuse_message stores it (lines 821-822).
WithReuse(r, id) == [r EXCEPT !.reuse_msg_id = id, !.state = STATE_AWAIT_RESPONSE]

\* Lines 820-825: store the reuse message id and AWAIT_RESPONSE.
ReuseSave ==
    /\ pc = "reuse_save"
    /\ \/ /\ rec' = WithReuse(rec, NewReuseMsgId)
          /\ oobB' = Put(oobB, OobIdB, rec')
          /\ pc' = "wait_sub"
          /\ UNCHANGED <<ret, hist>>
       \/ /\ MayFail
          /\ Raise("OutOfBandManagerError", TRUE)
          /\ UNCHANGED <<rec, oobB>>
    /\ UNCHANGED <<createVars, connB, keysB, inv, conn_rec, sub, csub, effectVars>>

\* ------------------------------------------------- _wait_for_reuse_response
\* Variant of WaitSubscribe that goes on to read the record with no
\* subscription open.
WaitSubscribeNotOpened ==
    /\ pc = "wait_sub"
    /\ pc' = "wait_read"
    /\ UNCHANGED <<createVars, oobB, connB, keysB, inv, rec, conn_rec, ret, sub,
                   csub, effectVars, hist>>

\* Line 568: the subscription is opened before the record is read.
WaitSubscribe ==
    /\ pc = "wait_sub"
    /\ sub' = SubOpen
    /\ pc' = "wait_read"
    /\ UNCHANGED <<createVars, oobB, connB, keysB, inv, rec, conn_rec, ret, csub,
                   effectVars, hist>>

\* Lines 576-583: read the record; return it if it is in a final reuse state.
WaitRead ==
    /\ pc = "wait_read"
    /\ LET cur == oobB[OobIdB]
       IN  IF cur.state \in Terminal
           THEN /\ rec' = cur
                /\ sub' = SubClosed
                /\ pc' = "reuse_done"
           ELSE /\ pc' = "wait_event"
                /\ UNCHANGED <<rec, sub>>
    /\ UNCHANGED <<createVars, oobB, connB, keysB, inv, conn_rec, ret, csub,
                   effectVars, hist>>

\* Lines 587-588: the awaited event arrives; its payload is the record.
WaitEvent ==
    /\ pc = "wait_event"
    /\ sub.fired
    /\ rec' = sub.payload
    /\ sub' = SubClosed
    /\ pc' = "reuse_done"
    /\ UNCHANGED <<createVars, oobB, connB, keysB, inv, conn_rec, ret, csub,
                   effectVars, hist>>

\* Variant of WaitTimeout that does what the docstring says: on timeout the
\* record is set to NOT_ACCEPTED and stored.
WaitTimeoutSetsNotAccepted ==
    /\ pc \in {"wait_read", "wait_event"}
    /\ ~sub.fired
    /\ rec' = [oobB[OobIdB] EXCEPT !.state = STATE_NOT_ACCEPTED]
    /\ oobB' = Put(oobB, OobIdB, rec')
    /\ sub' = SubClosed
    /\ pc' = "reuse_done"
    /\ hist' = [hist EXCEPT !.timed_out = TRUE]
    /\ UNCHANGED <<createVars, connB, keysB, inv, conn_rec, ret, csub,
                   effectVars>>

\* Lines 597-600: the wait times out; the record is read again and returned.
WaitTimeout ==
    /\ pc \in {"wait_read", "wait_event"}
    /\ ~sub.fired
    /\ rec' = oobB[OobIdB]
    /\ sub' = SubClosed
    /\ pc' = "reuse_done"
    /\ hist' = [hist EXCEPT !.timed_out = TRUE]
    /\ UNCHANGED <<createVars, oobB, connB, keysB, inv, conn_rec, ret, csub,
                   effectVars>>

\* --------------------------------------------------- _handle_hanshake_reuse
\* Variant of ClearConnection that keeps the connection id.
ClearConnectionKept(r) == r

\* Line 657: the connection id is removed from the record.
ClearConnection(r) == [r EXCEPT !.connection_id = NoId]

\* Lines 655-673: if the reuse was not accepted, clear the connection id and
\* emit the "rejected" notification.
ReuseDone ==
    /\ pc = "reuse_done"
    /\ IF rec.state # STATE_ACCEPTED
       THEN \/ /\ rec' = ClearConnection(rec)
               /\ notes' = [notes EXCEPT !.rejected = @ + 1]
               /\ pc' = "reuse_clear_save"
               /\ hist' = [hist EXCEPT !.reuse_outcome = rec.state]
               /\ UNCHANGED ret
            \/ /\ MayFail
               /\ Raise("NotifyError", TRUE)
               /\ rec' = ClearConnection(rec)
               /\ UNCHANGED notes
       ELSE /\ pc' = "after_reuse"
            /\ hist' = [hist EXCEPT !.reuse_outcome = rec.state]
            /\ UNCHANGED <<rec, notes, ret>>
    /\ UNCHANGED <<createVars, oobB, connB, keysB, inv, conn_rec, sub, csub,
                   net, invoked, dispatched>>

\* Lines 675-678: save the record without its connection id.
ReuseClearSave ==
    /\ pc = "reuse_clear_save"
    /\ \/ /\ oobB' = Put(oobB, OobIdB, rec)
          /\ pc' = "after_reuse"
          /\ UNCHANGED <<ret, hist>>
       \/ /\ MayFail
          /\ Raise("StorageError", TRUE)
          /\ UNCHANGED oobB
    /\ UNCHANGED <<createVars, connB, keysB, inv, rec, conn_rec, sub, csub,
                   effectVars>>

\* Variant of AfterReuse that keeps the candidate connection in conn_rec.
AfterReuseKeepsConnRec ==
    /\ pc = "after_reuse"
    /\ IF rec.state = STATE_ACCEPTED
       THEN /\ ret' = "returned"
            /\ pc' = "done"
       ELSE /\ pc' = "handshake"
            /\ UNCHANGED ret
    /\ UNCHANGED <<createVars, oobB, connB, keysB, inv, rec, conn_rec, sub, csub,
                   effectVars, hist>>

\* Variant of AfterReuse without the early return.
AfterReuseFallsThrough ==
    /\ pc = "after_reuse"
    /\ conn_rec' = NoId
    /\ pc' = "handshake"
    /\ UNCHANGED <<createVars, oobB, connB, keysB, inv, rec, ret, sub, csub,
                   effectVars, hist>>

\* Lines 473-483: back in receive_invitation; an accepted reuse ends the call.
AfterReuse ==
    /\ pc = "after_reuse"
    /\ conn_rec' = NoId
    /\ IF rec.state = STATE_ACCEPTED
       THEN /\ ret' = "returned"
            /\ pc' = "done"
       ELSE /\ pc' = "handshake"
            /\ UNCHANGED ret
    /\ UNCHANGED <<createVars, oobB, connB, keysB, inv, rec, sub, csub,
                   effectVars, hist>>

\* --------------------------------------------------------- _perform_handshake
\* Lines 690-698: HSProto.get of each listed name, de-duplicated in order;
\* a name HSProto does not know gives None ("none").
HSProtoGet(name) == IF name \in HSProtoNames THEN name ELSE "none"

RECURSIVE Dedup(_)
Dedup(q) ==
    IF Len(q) = 0 THEN <<>>
    ELSE LET front == Dedup(SubSeq(q, 1, Len(q) - 1))
             x == q[Len(q)]
         IN  IF x \in Range(front) THEN front ELSE Append(front, x)

SupportedHandshakeProtocols(protos) ==
    LET names == Dedup(protos)
    IN  [k \in 1..Len(names) |-> HSProtoGet(names[k])]

\* Variant of FirstCapability that goes by the order of the supported set
\* (RFC23 before RFC160) instead of the order of the invitation.
FirstCapabilityBySupportedOrder(supported, k) ==
    IF "RFC23" \in Range(supported) THEN "RFC23"
    ELSE IF "RFC160" \in Range(supported) THEN "RFC160"
    ELSE "none"

\* Lines 735-774: the loop runs the capability of the first entry that is
\* RFC23 or RFC160 and breaks; "none" when the loop ends without a match.
RECURSIVE FirstCapability(_, _)
FirstCapability(supported, k) ==
    IF k > Len(supported) THEN "none"
    ELSE IF supported[k] = "RFC23" THEN "RFC23"
    ELSE IF supported[k] = "RFC160" THEN "RFC160"
    ELSE FirstCapability(supported, k + 1)

SelectProtocol(protos) == FirstCapability(SupportedHandshakeProtocols(protos), 1)

NewConnRecordB(invId) ==
    [invitation_msg_id |-> invId, ready |-> FALSE]

\* Lines 487-493 and 688-779: if no connection is bound and the invitation
\* lists handshake protocols, resolve the service, run one capability.
\* The capability creates the connection record, raises, or gives nothing.
Handshake ==
    /\ pc = "handshake"
    /\ IF conn_rec = NoId /\ Len(inv.protos) > 0
       THEN LET p == SelectProtocol(inv.protos)
            IN  \/ /\ inv.did
                   /\ MayFail
                   /\ Raise("ResolverError", TRUE)
                   /\ UNCHANGED <<connB, invoked>>
                \/ /\ p = "none"
                   /\ Raise("OutOfBandManagerError", FALSE)
                   /\ UNCHANGED <<connB, invoked>>
                \/ /\ p # "none"
                   /\ invoked' = Append(invoked, p)
                   /\ \/ /\ connB' = Put(connB, NewConnB, NewConnRecordB(inv.id))
                         /\ pc' = "hs_save"
                         /\ UNCHANGED <<ret, hist>>
                      \/ /\ MayFail
                         /\ Raise("HandshakeError", TRUE)
                         /\ UNCHANGED connB
                      \/ /\ MayFail
                         /\ Raise("OutOfBandManagerError", TRUE)
                         /\ UNCHANGED connB
       ELSE /\ pc' = "attach"
            /\ UNCHANGED <<connB, invoked, ret, hist>>
    /\ UNCHANGED <<createVars, oobB, keysB, inv, rec, conn_rec, sub, csub,
                   net, notes, dispatched>>

\* Variant of BindConnection that does not bind.
BindConnectionKept(r, c) == r

\* Line 782: the new connection is bound to the record.
BindConnection(r, c) == [r EXCEPT !.connection_id = c]

\* Lines 781-785 and 498-501: save the record with the new connection id and
\* fetch the connection record again.
HandshakeSave ==
    /\ pc = "hs_save"
    /\ \/ /\ rec' = BindConnection(rec, NewConnB)
          /\ oobB' = Put(oobB, OobIdB, rec')
          /\ conn_rec' = NewConnB
          /\ pc' = "attach"
          /\ UNCHANGED <<ret, hist>>
       \/ /\ MayFail
          /\ Raise("StorageError", TRUE)
          /\ rec' = BindConnection(rec, NewConnB)
          /\ UNCHANGED <<oobB, conn_rec>>
    /\ UNCHANGED <<createVars, connB, keysB, inv, sub, csub, effectVars>>

\* ------------------------------------------------- attachments (lines 503-527)
\* Line 525: the returned record is marked done (and not saved).
MarkDone(r) == [r EXCEPT !.state = STATE_DONE]

\* Variant of Attach that does not wait for the connection to be ready.
AttachNoWait ==
    /\ pc = "attach"
    /\ IF inv.attach = "none"
       THEN /\ rec' = MarkDone(rec)
            /\ ret' = "returned"
            /\ pc' = "done"
       ELSE /\ pc' = "keygen"
            /\ UNCHANGED <<rec, ret>>
    /\ UNCHANGED <<createVars, oobB, connB, keysB, inv, conn_rec, sub, csub,
                   effectVars, hist>>

\* Lines 504-513 and 525-527: without attached requests the call returns;
\* with a bound connection it first waits for the connection to be ready.
Attach ==
    /\ pc = "attach"
    /\ IF inv.attach = "none"
       THEN /\ rec' = MarkDone(rec)
            /\ ret' = "returned"
            /\ pc' = "done"
            /\ UNCHANGED csub
       ELSE IF rec.connection_id # NoId
       THEN /\ csub' = "open"
            /\ pc' = "conn_wait_read"
            /\ UNCHANGED <<rec, ret>>
       ELSE /\ pc' = "keygen"
            /\ UNCHANGED <<rec, ret, csub>>
    /\ UNCHANGED <<createVars, oobB, connB, keysB, inv, conn_rec, sub,
                   effectVars, hist>>

\* Lines 621-626: with the subscription open, read the connection record.
ConnWaitRead ==
    /\ pc = "conn_wait_read"
    /\ IF connB[rec.connection_id].ready
       THEN /\ csub' = "closed"
            /\ pc' = "keygen"
       ELSE /\ pc' = "conn_wait_event"
            /\ UNCHANGED csub
    /\ UNCHANGED <<createVars, oobB, connB, keysB, inv, rec, conn_rec, ret, sub,
                   effectVars, hist>>

\* Lines 630-631: the readiness event arrives.
ConnWaitEvent ==
    /\ pc = "conn_wait_event"
    /\ csub = "fired"
    /\ csub' = "closed"
    /\ pc' = "keygen"
    /\ UNCHANGED <<createVars, oobB, connB, keysB, inv, rec, conn_rec, ret, sub,
                   effectVars, hist>>

\* Lines 639-641: the readiness wait times out; the call goes on.
ConnWaitTimeout ==
    /\ pc \in {"conn_wait_read", "conn_wait_event"}
    /\ csub # "fired"
    /\ csub' = "closed"
    /\ pc' = "keygen"
    /\ hist' = [hist EXCEPT !.conn_timed_out = TRUE]
    /\ UNCHANGED <<createVars, oobB, connB, keysB, inv, rec, conn_rec, ret, sub,
                   effectVars>>

\* The handshake sub-protocol completes the new connection; the save of the
\* connection record publishes the readiness event.
ConnBecomesReady ==
    /\ NewConnB \in DOMAIN connB
    /\ ~connB[NewConnB].ready
    /\ connB' = [connB EXCEPT ![NewConnB].ready = TRUE]
    /\ csub' = IF csub = "open" /\ rec.connection_id = NewConnB
               THEN "fired" ELSE csub
    /\ UNCHANGED <<createVars, oobB, keysB, inv, pc, rec, conn_rec, ret, sub,
                   effectVars, hist>>

\* Line 519: the key of a connectionless exchange.
WithRecipientKey(r) == [r EXCEPT !.our_recipient_key = TRUE]

\* Variant of KeyGen that creates the key whether or not a connection
\* record is at hand.
KeyGenAlways ==
    /\ pc = "keygen"
    /\ \/ /\ keysB' = keysB + 1
          /\ rec' = WithRecipientKey(rec)
          /\ oobB' = Put(oobB, OobIdB, rec')
          /\ pc' = "dispatch"
          /\ UNCHANGED <<ret, hist>>
       \/ /\ MayFail
          /\ Raise("WalletError", TRUE)
          /\ UNCHANGED <<keysB, rec, oobB>>
    /\ UNCHANGED <<createVars, connB, inv, conn_rec, sub, csub, effectVars>>

\* Lines 514-520: without a connection record, create a key, store it.
KeyGen ==
    /\ pc = "keygen"
    /\ IF conn_rec = NoId
       THEN \/ /\ keysB' = keysB + 1
               /\ rec' = WithRecipientKey(rec)
               /\ oobB' = Put(oobB, OobIdB, rec')
               /\ pc' = "dispatch"
               /\ UNCHANGED <<ret, hist>>
            \/ /\ MayFail
               /\ Raise("WalletError", TRUE)
               /\ UNCHANGED <<keysB, rec, oobB>>
       ELSE /\ pc' = "dispatch"
            /\ UNCHANGED <<keysB, rec, oobB, ret, hist>>
    /\ UNCHANGED <<createVars, connB, inv, conn_rec, sub, csub, effectVars>>

\* Lines 522-527 and 529-546: hand the first attached request to the message
\* processor, mark the record done, return it.
Dispatch ==
    /\ pc = "dispatch"
    /\ IF inv.attach = "malformed"
       THEN /\ Raise("OutOfBandManagerError", FALSE)
            /\ UNCHANGED <<rec, dispatched>>
       ELSE \/ /\ dispatched' = dispatched + 1
               /\ rec' = MarkDone(rec)
               /\ ret' = "returned"
               /\ pc' = "done"
               /\ UNCHANGED hist
            \/ /\ MayFail
               /\ Raise("ProcessorError", TRUE)
               /\ dispatched' = dispatched + 1
               /\ UNCHANGED rec
    /\ UNCHANGED <<createVars, oobB, connB, keysB, inv, conn_rec, sub, csub,
                   net, notes, invoked>>

\* ------------------------------------------------------ receive_reuse_message
\* Variant of DeleteStaleConnectionByInvitation without the post-filter: it
\* deletes every connection record of the invitation.
DeleteConnectionsOfInvitation(conns, invId) ==
    [c \in {d \in DOMAIN conns : conns[d].invitation_msg_id # invId} |-> conns[c]]

\* Lines 834-846: delete the connection records of the invitation that are
\* single-use and still in the invitation state.
DeleteStaleConnectionByInvitation(conns, invId) ==
    LET stale == {c \in DOMAIN conns :
                    /\ conns[c].invitation_msg_id = invId
                    /\ conns[c].invitation_mode = "once"
                    /\ conns[c].state = "invitation"}
    IN  [c \in DOMAIN conns \ stale |-> conns[c]]

\* Variant of AcceptReuse that leaves the connection id as it was.
AcceptReuseStateOnly(r, reuseId, connId) ==
    [r EXCEPT !.state = STATE_ACCEPTED, !.reuse_msg_id = reuseId]

\* Lines 888-890: the inviter's record on an accepted reuse.
AcceptReuse(r, reuseId, connId) ==
    [r EXCEPT !.state = STATE_ACCEPTED, !.reuse_msg_id = reuseId,
              !.connection_id = connId]

\* Variant of AwaitingRecords without the state filter.
RecordsOfInvitation(store, invId) ==
    {i \in DOMAIN store : store[i].invi_msg_id = invId}

\* Lines 882-886: the inviter's records of the invitation that await a response.
AwaitingRecords(store, invId) ==
    {i \in DOMAIN store :
        store[i].invi_msg_id = invId /\ store[i].state = STATE_AWAIT_RESPONSE}

ReuseFailPoints == {"targets", "oob_save", "conn_save", "prune", "notify", "send"}

\* How many steps of receive_reuse_message are done when the collaborator at
\* point f fails (f = NoFailure: none does); the steps are, in order,
\* targets, lookup, oob_save, conn_save, prune, notify, send.
ReuseStepsDone(f) ==
    CASE f = "targets" -> 0
      [] f = "oob_save" -> 1
      [] f = "conn_save" -> 2
      [] f = "prune" -> 3
      [] f = "notify" -> 4
      [] f = "send" -> 5
      [] OTHER -> 6

\* The party that could not process a reuse message answers with a problem
\* report on the same thread.
ProblemReportFor(m) == Msg("problem", m.thid, m.pthid)

\* Variant of ReceiveReuse that sends the reuse-accept as soon as it has the
\* delivery targets, before it looks up and stores anything.
ReceiveReuseSendFirst(m, f) ==
    /\ f # NoFailure => MayFail
    /\ LET found == AwaitingRecords(oobA, m.pthid)
           sent == f \notin {"targets", "send"}
           n == IF ~sent \/ Cardinality(found) # 1 THEN 0
                ELSE IF f = NoFailure THEN 6 ELSE ReuseStepsDone(f)
           id == CHOOSE i \in found : TRUE
           ok == n = 6
       IN  /\ oobA' = IF n >= 2
                      THEN [oobA EXCEPT ![id] = AcceptReuse(@, m.thid, ExistingConn)]
                      ELSE oobA
           /\ connA' =
                LET saved == IF n >= 3
                             THEN [connA EXCEPT ![ExistingConn].invitation_msg_id = m.pthid]
                             ELSE connA
                IN  IF n >= 4 THEN DeleteStaleConnectionByInvitation(saved, m.pthid)
                    ELSE saved
           /\ notes' = IF n >= 5 THEN [notes EXCEPT !.reuse = @ + 1] ELSE notes
           /\ net' = LET d == Delivered(net, m)
                     IN  IF sent THEN Send(d, Msg("accept", m.thid, m.pthid))
                         ELSE Send(d, ProblemReportFor(m))
           /\ hist' = [hist EXCEPT
                         !.failed = @ \/ ~ok,
                         !.nfail = IF f # NoFailure THEN @ + 1 ELSE @,
                         !.last = [op |-> "reuse",
                                   err |-> IF ok THEN "none"
                                           ELSE IF f = NoFailure
                                           THEN "StorageNotFoundError"
                                           ELSE "CollaboratorError"]]
    /\ UNCHANGED <<keysA, cin, cres, inviteeVars, invoked, dispatched>>

\* receive_reuse_message for reuse message m, which arrived over the existing
\* channel; the collaborator at point f fails.
ReceiveReuse(m, f) ==
    /\ f # NoFailure => MayFail
    /\ LET found == AwaitingRecords(oobA, m.pthid)
           n == IF f # "targets" /\ Cardinality(found) # 1 THEN 0 ELSE ReuseStepsDone(f)
           id == CHOOSE i \in found : TRUE
           ok == n = 6
       IN  /\ oobA' = IF n >= 2
                      THEN [oobA EXCEPT ![id] = AcceptReuse(@, m.thid, ExistingConn)]
                      ELSE oobA
           /\ connA' =
                LET saved == IF n >= 3
                             THEN [connA EXCEPT ![ExistingConn].invitation_msg_id = m.pthid]
                             ELSE connA
                IN  IF n >= 4 THEN DeleteStaleConnectionByInvitation(saved, m.pthid)
                    ELSE saved
           /\ notes' = IF n >= 5 THEN [notes EXCEPT !.reuse = @ + 1] ELSE notes
           /\ net' = LET d == Delivered(net, m)
                     IN  IF ok THEN Send(d, Msg("accept", m.thid, m.pthid))
                         ELSE Send(d, ProblemReportFor(m))
           /\ hist' = [hist EXCEPT
                         !.failed = @ \/ ~ok,
                         !.nfail = IF f # NoFailure THEN @ + 1 ELSE @,
                         !.last = [op |-> "reuse",
                                   err |-> IF ok THEN "none"
                                           ELSE IF f = NoFailure
                                           THEN "StorageNotFoundError"
                                           ELSE "CollaboratorError"]]
    /\ UNCHANGED <<keysA, cin, cres, inviteeVars, invoked, dispatched>>

\* -------------------------------------------- receive_reuse_accepted_message
\* Variant of RecordsOfThread that, like the inviter's lookup, only finds
\* records that still await the response.
RecordsOfThreadAwaiting(store, invId, reuseId) ==
    {i \in DOMAIN store :
        /\ store[i].invi_msg_id = invId /\ store[i].reuse_msg_id = reuseId
        /\ store[i].state = STATE_AWAIT_RESPONSE}

\* Lines 944-947 and 1019-1022: the records with this invitation id and this
\* reuse message id.
RecordsOfThread(store, invId, reuseId) ==
    {i \in DOMAIN store :
        store[i].invi_msg_id = invId /\ store[i].reuse_msg_id = reuseId}

\* Line 949.
MarkAccepted(r) == [r EXCEPT !.state = STATE_ACCEPTED]

AcceptFailPoints == {"conn_save", "oob_save", "notify"}

\* receive_reuse_accepted_message for accept message m, which arrived over the
\* existing channel; the collaborator at point f fails.
ReceiveAccepted(m, f) ==
    /\ f # NoFailure => MayFail
    /\ LET found == RecordsOfThread(oobB, m.pthid, m.thid)
           hit == Cardinality(found) = 1
           id == CHOOSE i \in found : TRUE
           connSaved == hit /\ f # "conn_save"
           oobSaved == connSaved /\ f # "oob_save"
           ok == oobSaved /\ f # "notify"
       IN  /\ connB' = IF connSaved
                       THEN [connB EXCEPT ![ExistingConn].invitation_msg_id = m.pthid]
                       ELSE connB
           /\ oobB' = IF oobSaved THEN [oobB EXCEPT ![id] = MarkAccepted(@)] ELSE oobB
           /\ sub' = IF oobSaved THEN Publish(sub, oobB[id], oobB'[id]) ELSE sub
           /\ notes' = IF ok THEN [notes EXCEPT !.accepted = @ + 1]
                       ELSE [notes EXCEPT !.rejected_h = @ + 1]
           /\ hist' = [hist EXCEPT
                         !.failed = @ \/ ~ok,
                         !.resp_seen = TRUE,
                         !.nfail = IF hit /\ f # NoFailure THEN @ + 1 ELSE @,
                         !.last = [op |-> "accept",
                                   err |-> IF ok THEN "none"
                                           ELSE "OutOfBandManagerError"]]
    /\ net' = Delivered(net, m)
    /\ UNCHANGED <<createVars, keysB, inv, pc, rec, conn_rec, ret, csub,
                   invoked, dispatched>>

\* ---------------------------------------------------- receive_problem_report
\* Variant of MarkNotAccepted that also drops the connection id.
MarkNotAcceptedCleared(r) ==
    [r EXCEPT !.state = STATE_NOT_ACCEPTED, !.connection_id = NoId]

\* Line 1023.
MarkNotAccepted(r) == [r EXCEPT !.state = STATE_NOT_ACCEPTED]

\* receive_problem_report for problem report m; the collaborator at point f
\* (the save) fails.
ReceiveProblemReport(m, f) ==
    /\ f # NoFailure => MayFail
    /\ LET found == RecordsOfThread(oobB, m.pthid, m.thid)
           hit == Cardinality(found) = 1
           id == CHOOSE i \in found : TRUE
           ok == hit /\ f = NoFailure
       IN  /\ oobB' = IF ok THEN [oobB EXCEPT ![id] = MarkNotAccepted(@)] ELSE oobB
           /\ sub' = IF ok THEN Publish(sub, oobB[id], oobB'[id]) ELSE sub
           /\ hist' = [hist EXCEPT
                         !.failed = @ \/ ~ok,
                         !.resp_seen = TRUE,
                         !.nfail = IF hit /\ f # NoFailure THEN @ + 1 ELSE @,
                         !.last = [op |-> "problem",
                                   err |-> IF ok THEN "none"
                                           ELSE "OutOfBandManagerError"]]
    /\ net' = Delivered(net, m)
    /\ UNCHANGED <<createVars, connB, keysB, inv, pc, rec, conn_rec, ret, csub,
                   notes, invoked, dispatched>>

\* ------------------------------------------------------------ specification
\* The inviter's store before any invitation: only its end of the existing
\* channel, an active connection that belongs to no invitation.
InitConnA == [c \in {ExistingConn} |->
                [invitation_msg_id |-> NoId, invitation_mode |-> "once",
                 state |-> "active"]]

\* The invitee's store: with or without its end of the existing channel.
ConnBInits ==
    {<<>>, [c \in {ExistingConn} |-> [invitation_msg_id |-> NoId, ready |-> TRUE]]}

InitHist ==
    [failed |-> FALSE, nfail |-> 0, timed_out |-> FALSE, conn_timed_out |-> FALSE,
     looked_up |-> FALSE, reuse_sent |-> FALSE, reuse_outcome |-> "none",
     resp_seen |-> FALSE, last |-> [op |-> "none", err |-> "none"]]

InitNotes == [reuse |-> 0, accepted |-> 0, rejected |-> 0, rejected_h |-> 0]

InitInviter ==
    /\ oobA = <<>>
    /\ connA = InitConnA
    /\ keysA = 0
    /\ cres = CreateIdle

InitInvitee ==
    /\ oobB = <<>>
    /\ keysB = 0
    /\ pc = "idle"
    /\ rec = NullOob
    /\ conn_rec = NoId
    /\ ret = "running"
    /\ sub = SubClosed
    /\ csub = "closed"

InitEffects ==
    /\ net = <<>>
    /\ notes = InitNotes
    /\ invoked = <<>>
    /\ dispatched = 0
    /\ hist = InitHist

\* The invitations of the reuse scenarios come from the public DID.
MainCreateInputs ==
    {i \in CreateInputs :
        /\ i.public /\ i.public_invites /\ i.public_did
        /\ ~i.multi_use /\ ~i.metadata /\ ~i.mediation
        /\ i.hs_protos \in {<<>>, <<"RFC23">>}
        /\ i.attachments \in {<<>>, <<[type |-> "credential-offer", found |-> TRUE]>>}
        /\ Len(i.hs_protos) + Len(i.attachments) > 0}

\* The inviter has created its invitation; the invitee is about to receive
\* one.
Init ==
    /\ InitInvitee /\ InitEffects
    /\ cin \in MainCreateInputs
    /\ cres = CreateInvitationResult(cin)
    /\ keysA = 0
    /\ connA = ConnAfterCreate(InitConnA, cin, cres)
    /\ oobA = OobAfterCreate(<<>>, cin, cres)
    /\ connB \in ConnBInits
    /\ inv \in ReuseInvInputs

Next ==
    \/ ReceiveInvitationStart
    \/ ReuseSend
    \/ ReuseSave
    \/ WaitSubscribe
    \/ WaitRead
    \/ WaitEvent
    \/ WaitTimeout
    \/ ReuseDone
    \/ ReuseClearSave
    \/ AfterReuse
    \/ Handshake
    \/ HandshakeSave
    \/ Attach
    \/ ConnWaitRead
    \/ ConnWaitEvent
    \/ ConnWaitTimeout
    \/ ConnBecomesReady
    \/ KeyGen
    \/ Dispatch
    \/ \E m \in Deliverable("reuse"), f \in ReuseFailPoints \cup {NoFailure} :
          ReceiveReuse(m, f)
    \/ \E m \in Deliverable("accept"), f \in AcceptFailPoints \cup {NoFailure} :
          ReceiveAccepted(m, f)
    \/ \E m \in Deliverable("problem"), f \in {"oob_save", NoFailure} :
          ReceiveProblemReport(m, f)

Spec == Init /\ [][Next]_vars

\* create_invitation alone, on every combination of arguments and settings.
CreateInit ==
    /\ InitInviter /\ InitInvitee /\ InitEffects
    /\ cin \in CreateInputs
    /\ connB = <<>>
    /\ inv = [id |-> CreatedInvId, services |-> 1, did |-> TRUE, protos |-> <<>>,
              attach |-> "none", use_existing |-> FALSE]

CreateNext == CreateInvitation

SpecCreate == CreateInit /\ [][CreateNext]_vars

\* receive_invitation alone, for an invitee that has no connection yet, on
\* every invitation.
InviteInit ==
    /\ InitInviter /\ InitInvitee /\ InitEffects
    /\ cin \in {i \in MainCreateInputs : Len(i.attachments) = 0}
    /\ connB = <<>>
    /\ inv \in InvInputs

InviteNext ==
    \/ ReceiveInvitationStart
    \/ Handshake
    \/ HandshakeSave
    \/ Attach
    \/ ConnWaitRead
    \/ ConnWaitEvent
    \/ ConnWaitTimeout
    \/ ConnBecomesReady
    \/ KeyGen
    \/ Dispatch

SpecInvite == InviteInit /\ [][InviteNext]_vars

\* receive_reuse_message alone, on an inviter whose store holds, besides the
\* existing connection, other connection records in every combination of
\* invitation, mode and state, with one reuse message about to arrive.
OtherConnIds == {3, 4}

ConnRecordsA ==
    [invitation_msg_id : {CreatedInvId, ForeignInvId},
     invitation_mode : {"once", "multi"},
     state : {"invitation", "request", "active"}]

ReuseCreateInput ==
    CHOOSE i \in MainCreateInputs : Len(i.hs_protos) = 0

ReuseInit ==
    /\ InitInvitee
    /\ notes = InitNotes /\ invoked = <<>> /\ dispatched = 0 /\ hist = InitHist
    /\ cin = ReuseCreateInput
    /\ cres = CreateInvitationResult(cin)
    /\ keysA = 0
    /\ oobA = OobAfterCreate(<<>>, cin, cres)
    /\ connA \in {f \in [{ExistingConn} \cup OtherConnIds -> ConnRecordsA \cup {InitConnA[ExistingConn]}] :
                     /\ f[ExistingConn] = InitConnA[ExistingConn]
                     /\ \A c \in OtherConnIds : f[c] \in ConnRecordsA}
    /\ connB \in ConnBInits
    /\ inv \in {i \in ReuseInvInputs : i.services = 1 /\ i.did /\ i.use_existing
                                        /\ i.attach = "none" /\ i.protos = <<>>}
    /\ net \in {[m \in {Msg("reuse", NewReuseMsgId, p)} |-> 0] :
                    p \in {CreatedInvId, ForeignInvId}}

ReuseNext ==
    \E m \in Deliverable("reuse"), f \in ReuseFailPoints \cup {NoFailure} :
        ReceiveReuse(m, f)

SpecReuse == ReuseInit /\ [][ReuseNext]_vars

\* ================================================================== claims
InviterRecord == oobA[inv.id]
InviteeRecord == oobB[OobIdB]

\* C1: when the reuse message was processed by receive_reuse_message and the
\* reuse-accept by receive_reuse_accepted_message, before the invitee's wait
\* timed out and without any step failing, the inviter's and the invitee's
\* OobRecord are both ACCEPTED and both bound to the reused connection.
C1_RoundTrip ==
    (notes.accepted > 0 /\ ~hist.failed /\ ~hist.timed_out) =>
        /\ InviteeRecord.state = STATE_ACCEPTED
        /\ InviteeRecord.connection_id = ExistingConn
        /\ inv.id \in DOMAIN oobA
        /\ InviterRecord.state = STATE_ACCEPTED
        /\ InviterRecord.connection_id = InviteeRecord.connection_id
        /\ InviterRecord.reuse_msg_id = InviteeRecord.reuse_msg_id

C1_Witness ==
    /\ notes.accepted > 0 /\ ~hist.failed /\ ~hist.timed_out
    /\ ret = "returned"
    /\ rec.state = STATE_ACCEPTED
    /\ InviterRecord.state = STATE_ACCEPTED

\* C2: the waiter of _wait_for_reuse_response never misses the outcome: while
\* it is blocked on the event, a stored ACCEPTED or NOT_ACCEPTED state has
\* its event pending in the subscription, and a wait that ends without the
\* timeout returns a record in one of these two states.
C2_WaiterNeverMisses ==
    /\ (pc = "wait_event" /\ InviteeRecord.state \in Terminal) => sub.fired
    /\ (pc = "reuse_done" /\ ~hist.timed_out) => rec.state \in Terminal

\* The state changed in the window between subscribing and reading.
C2_Witness ==
    /\ pc = "wait_read"
    /\ sub.fired
    /\ InviteeRecord.state \in Terminal

\* C3 (as claimed): the stored state of an OobRecord only moves INITIAL to
\* AWAIT_RESPONSE, AWAIT_RESPONSE to ACCEPTED or NOT_ACCEPTED, or to DONE.
AllowedTransition(a, b) ==
    \/ a = b
    \/ a = STATE_INITIAL /\ b = STATE_AWAIT_RESPONSE
    \/ a = STATE_AWAIT_RESPONSE /\ b \in Terminal
    \/ b = STATE_DONE

C3_StateMonotonic ==
    [][/\ \A i \in DOMAIN oobB : AllowedTransition(oobB[i].state, oobB'[i].state)
       /\ \A i \in DOMAIN oobA : AllowedTransition(oobA[i].state, oobA'[i].state)]_vars

\* C4: when _handle_hanshake_reuse has returned and no reuse-accept and no
\* problem report was processed, the connection id is cleared in the returned
\* and in the stored record and exactly one "rejected" notification was
\* emitted.
C4_TimeoutClears ==
    (pc = "after_reuse" /\ ~hist.resp_seen) =>
        /\ rec.connection_id = NoId
        /\ InviteeRecord.connection_id = NoId
        /\ notes.rejected + notes.rejected_h = 1

C4_Witness ==
    /\ pc = "after_reuse" /\ ~hist.resp_seen /\ hist.timed_out
    /\ notes.rejected = 1
    /\ InviteeRecord.connection_id = NoId

\* C5: a reuse that ends ACCEPTED makes receive_invitation return at once the
\* ACCEPTED record, with no handshake capability invoked, no connection
\* created and no attachment dispatched; every other return is in state DONE.
C5_AcceptedReturn ==
    /\ ret = "returned" => rec.state \in {STATE_ACCEPTED, STATE_DONE}
    /\ (ret = "returned" /\ rec.state # STATE_DONE) =>
          /\ hist.reuse_outcome = STATE_ACCEPTED
          /\ inv.services = 1 /\ inv.did /\ inv.use_existing /\ inv.attach = "none"
    /\ (hist.reuse_outcome = STATE_ACCEPTED /\ pc # "after_reuse") =>
          /\ pc = "done" /\ ret = "returned"
          /\ rec.state = STATE_ACCEPTED
          /\ invoked = <<>>
          /\ NewConnB \notin DOMAIN connB
          /\ dispatched = 0

C5_Witness ==
    /\ ret = "returned"
    /\ rec.state = STATE_ACCEPTED
    /\ hist.reuse_outcome = STATE_ACCEPTED

\* C6: with a supported handshake protocol listed, no existing connection and
\* no attached request, a successful connection establishment makes
\* receive_invitation return the record in state DONE, bound to the new
\* connection.
ListsSupported(i) == \E k \in 1..Len(i.protos) : i.protos[k] \in {"RFC23", "RFC160"}

C6_HandshakeReturn ==
    (ret = "returned" /\ inv.attach = "none" /\ ListsSupported(inv)
        /\ ExistingConn \notin DOMAIN connB) =>
        /\ rec.state = STATE_DONE
        /\ rec.connection_id = NewConnB
        /\ NewConnB \in DOMAIN connB
        /\ Len(invoked) = 1

C6_Witness ==
    /\ ret = "returned" /\ inv.attach = "none" /\ ListsSupported(inv)
    /\ ExistingConn \notin DOMAIN connB
    /\ rec.connection_id = NewConnB
    /\ rec.state = STATE_DONE

\* C7: _perform_handshake invokes exactly one capability, that of the first
\* listed protocol that is RFC23 or RFC160; for [RFC160, RFC23] it is RFC160.
FirstListedSupported(i) ==
    LET ks == {k \in 1..Len(i.protos) : i.protos[k] \in {"RFC23", "RFC160"}}
        k0 == CHOOSE k \in ks : \A j \in ks : k <= j
    IN  i.protos[k0]

HandshakeRan == pc \in {"hs_save", "attach", "conn_wait_read", "conn_wait_event",
                        "keygen", "dispatch", "done"}

C7_FirstListedProtocol ==
    /\ invoked # <<>> => ListsSupported(inv) /\ invoked = <<FirstListedSupported(inv)>>
    /\ (HandshakeRan /\ ListsSupported(inv) /\ conn_rec = NewConnB) =>
          invoked = <<FirstListedSupported(inv)>>
    /\ (inv.protos = <<"RFC160", "RFC23">> /\ invoked # <<>>) => invoked = <<"RFC160">>

C7_Witness ==
    /\ inv.protos = <<"RFC160", "RFC23">>
    /\ invoked = <<"RFC160">>
    /\ pc = "done"

\* C8: a reuse-accept delivered again for a record that is already ACCEPTED
\* is processed without error and leaves the record's state ACCEPTED and its
\* connection id unchanged.
C8_AcceptIdempotent ==
    [][\A m \in DOMAIN net :
         \A i \in DOMAIN oobB :
            (/\ m.type = "accept"
             /\ oobB[i].invi_msg_id = m.pthid /\ oobB[i].reuse_msg_id = m.thid
             /\ oobB[i].state = STATE_ACCEPTED
             /\ ReceiveAccepted(m, NoFailure))
            => /\ hist'.last = [op |-> "accept", err |-> "none"]
               /\ oobB'[i].state = STATE_ACCEPTED
               /\ oobB'[i].connection_id = oobB[i].connection_id]_vars

C8_Witness ==
    /\ notes.accepted = 2
    /\ ~hist.failed /\ ~hist.timed_out
    /\ InviteeRecord.state = STATE_ACCEPTED

\* C9: an invitation whose services are not exactly one, or that has neither
\* handshake protocols nor attached requests, makes receive_invitation raise
\* the manager's error with nothing stored, looked up, created or sent.
C9_ReceiveFailFast ==
    (pc # "idle" /\ (inv.services # 1 \/ (Len(inv.protos) = 0 /\ inv.attach = "none"))) =>
        /\ pc = "raised"
        /\ ret = "OutOfBandManagerError"
        /\ oobB = <<>>
        /\ ~hist.looked_up
        /\ NewConnB \notin DOMAIN connB
        /\ net = <<>>
        /\ invoked = <<>>
        /\ keysB = 0 /\ dispatched = 0

C9_Witness ==
    /\ pc = "raised"
    /\ inv.services = 1 /\ Len(inv.protos) = 0 /\ inv.attach = "none"
    /\ ret = "OutOfBandManagerError"

\* C10: create_invitation raises, with no OobRecord, no connection record and
\* no key stored, on (a) no handshake protocol and no attachment, (b) public
\* with multi_use, (c) public with metadata, (d) attachments with multi_use,
\* (e) an attachment of unknown type, (f) public while public invitations
\* are disabled or there is no public DID.
C10_Rejected(in) ==
    \/ Len(in.hs_protos) = 0 /\ Len(in.attachments) = 0
    \/ in.public /\ in.multi_use
    \/ in.public /\ in.metadata
    \/ Len(in.attachments) > 0 /\ in.multi_use
    \/ \E k \in 1..Len(in.attachments) : in.attachments[k].type = "unknown"
    \/ in.public /\ (~in.public_invites \/ ~in.public_did)

C10_CreateFailFast ==
    (cres # CreateIdle /\ C10_Rejected(cin)) =>
        /\ cres.err \notin {"none", "idle"}
        /\ oobA = <<>>
        /\ connA = InitConnA
        /\ keysA = 0

C10_Witness ==
    /\ cres # CreateIdle
    /\ cin.public /\ ~cin.public_did /\ cin.public_invites
    /\ ~cin.multi_use /\ ~cin.metadata
    /\ Len(cin.hs_protos) = 1
    /\ cres.err = "OutOfBandManagerError"

\* C11 (as claimed): on every input that passes validation, create_invitation
\* completes and stores exactly one OobRecord, role SENDER, state
\* AWAIT_RESPONSE, bound to a newly created connection record when a handshake
\* protocol was requested and to none (no connection record created)
\* otherwise; the returned InvitationRecord is in state INITIAL.
C11_Valid(in) == ~C10_Rejected(in) /\ FirstBadAttachment(in.attachments, 1) = 0

C11_CreateSuccess ==
    (cres # CreateIdle /\ C11_Valid(cin)) =>
        /\ cres.err = "none"
        /\ cres.ret = STATE_INITIAL
        /\ DOMAIN oobA = {CreatedInvId}
        /\ oobA[CreatedInvId].role = ROLE_SENDER
        /\ oobA[CreatedInvId].state = STATE_AWAIT_RESPONSE
        /\ oobA[CreatedInvId].invi_msg_id = CreatedInvId
        /\ IF Len(cin.hs_protos) > 0
           THEN /\ oobA[CreatedInvId].connection_id = CreatedConnId
                /\ DOMAIN connA = DOMAIN InitConnA \cup {CreatedConnId}
           ELSE /\ oobA[CreatedInvId].connection_id = NoId
                /\ connA = InitConnA

\* C12 (as claimed): a record's reuse message id is set exactly when a reuse
\* message has been sent for it and no reuse-accept or problem report has been
\* processed; a record in ACCEPTED, NOT_ACCEPTED or INITIAL has none.
C12_ReuseIdUntilResponse ==
    /\ \A i \in DOMAIN oobB :
          /\ oobB[i].reuse_msg_id # NoId => (hist.reuse_sent /\ ~hist.resp_seen)
          /\ (hist.reuse_sent /\ ~hist.resp_seen
                /\ pc \in {"wait_sub", "wait_read", "wait_event"}) =>
                oobB[i].reuse_msg_id # NoId
          /\ oobB[i].state \in Terminal \cup {STATE_INITIAL} => oobB[i].reuse_msg_id = NoId
    /\ \A i \in DOMAIN oobA :
          oobA[i].state \in Terminal \cup {STATE_INITIAL} => oobA[i].reuse_msg_id = NoId

\* C12 (amended): the reuse message id is set by the step that records the
\* reuse message (the invitee's save after sending, the inviter's acceptance)
\* and stays set afterwards: an invitee's record has it exactly when its
\* stored state is no longer INITIAL, and then a reuse message was sent; an
\* inviter's record has it exactly when it is ACCEPTED; a record in ACCEPTED
\* or NOT_ACCEPTED has it, a record in INITIAL has none.
C12_ReuseIdKept ==
    /\ \A i \in DOMAIN oobB :
          /\ oobB[i].reuse_msg_id # NoId <=> oobB[i].state # STATE_INITIAL
          /\ oobB[i].reuse_msg_id # NoId => hist.reuse_sent
          /\ oobB[i].state \in Terminal => oobB[i].reuse_msg_id = NewReuseMsgId
    /\ \A i \in DOMAIN oobA :
          oobA[i].reuse_msg_id # NoId <=> oobA[i].state = STATE_ACCEPTED
    /\ pc \in {"wait_sub", "wait_read", "wait_event"} =>
          InviteeRecord.reuse_msg_id = NewReuseMsgId

C12_Witness ==
    /\ OobIdB \in DOMAIN oobB
    /\ InviteeRecord.state = STATE_ACCEPTED
    /\ InviteeRecord.reuse_msg_id = NewReuseMsgId
    /\ inv.id \in DOMAIN oobA
    /\ InviterRecord.state = STATE_ACCEPTED
    /\ InviterRecord.reuse_msg_id = NewReuseMsgId

NotesOfInvitee == notes.accepted + notes.rejected + notes.rejected_h

C14_OutcomeNotified ==
    [][/\ \A i \in DOMAIN oobA :
            (oobA'[i].state \in Terminal /\ oobA'[i].state # oobA[i].state) =>
                notes'.reuse > notes.reuse
       /\ \A i \in DOMAIN oobB :
            (oobB'[i].state \in Terminal /\ oobB'[i].state # oobB[i].state) =>
                \/ NotesOfInvitee' > NotesOfInvitee
                \/ pc' # pc /\ notes.rejected > 0]_vars

\* C15 (as claimed): whatever fails inside receive_reuse_message, the caller
\* gets the manager's error (OutOfBandManagerError), never the raw exception.
C15_ReuseErrorWrapped ==
    hist.last.op = "reuse" => hist.last.err \in {"none", "OutOfBandManagerError"}

C17_TimeoutSetsNotAccepted ==
    (hist.timed_out /\ ~hist.resp_seen
        /\ pc \in {"reuse_done", "reuse_clear_save", "after_reuse"}) =>
        /\ rec.state = STATE_NOT_ACCEPTED
        /\ InviteeRecord.state = STATE_NOT_ACCEPTED

\* C18: receive_reuse_message changes an inviter's OobRecord only by taking a
\* record of the message's invitation from AWAIT_RESPONSE to ACCEPTED; when no
\* record of that invitation awaits a response (for instance after a first
\* reuse message was accepted), it changes no OobRecord and no connection
\* record, emits no acceptance notification and sends no reuse-accept.
C18_ReuseGuardedByState ==
    [][/\ \A m \in DOMAIN net : \A f \in ReuseFailPoints \cup {NoFailure} :
            (/\ m.type = "reuse"
             /\ ~\E i \in DOMAIN oobA : /\ oobA[i].invi_msg_id = m.pthid
                                       /\ oobA[i].state = STATE_AWAIT_RESPONSE
             /\ ReceiveReuse(m, f))
            => /\ oobA' = oobA
               /\ connA' = connA
               /\ notes' = notes
               /\ \A a \in DOMAIN net' \ DOMAIN net : a.type # "accept"
       /\ \A i \in DOMAIN oobA :
            oobA'[i] # oobA[i] =>
                /\ oobA[i].state = STATE_AWAIT_RESPONSE
                /\ oobA'[i].state = STATE_ACCEPTED
                /\ \E m \in DOMAIN net : m.type = "reuse" /\ m.pthid = oobA[i].invi_msg_id]_vars

\* A second reuse message for the invitation arrived after the first was
\* accepted.
C18_Witness ==
    /\ notes.reuse = 1
    /\ \E m \in DOMAIN net : m.type = "reuse" /\ net[m] = 2 /\ m.pthid = CreatedInvId
    /\ oobA[CreatedInvId].state = STATE_ACCEPTED
    /\ hist.last = [op |-> "reuse", err |-> "StorageNotFoundError"]

\* C19 (as claimed): in no stored state is the inviter's record ACCEPTED, with
\* the reuse message id and the reusing connection's id, while that
\* connection's invitation_msg_id does not name the record's invitation.
C19_AcceptAtomic ==
    \A i \in DOMAIN oobA :
        (/\ oobA[i].state = STATE_ACCEPTED
         /\ oobA[i].reuse_msg_id # NoId
         /\ oobA[i].connection_id = ExistingConn)
        => /\ ExistingConn \in DOMAIN connA
           /\ connA[ExistingConn].invitation_msg_id = oobA[i].invi_msg_id

ReuseNotAccepted == hist.reuse_outcome \notin {"none", STATE_ACCEPTED}

C21_FallthroughToHandshake ==
    /\ (pc = "after_reuse" /\ rec.state # STATE_ACCEPTED) =>
          /\ ReuseNotAccepted
          /\ Len(inv.protos) > 0
    /\ (pc = "handshake" /\ ReuseNotAccepted) =>
          /\ conn_rec = NoId
          /\ Len(inv.protos) > 0
    /\ (ReuseNotAccepted /\ pc \in {"hs_save", "attach", "conn_wait_read",
                                     "conn_wait_event", "keygen", "dispatch", "done"}) =>
          /\ Len(invoked) = 1
          /\ NewConnB \in DOMAIN connB
    /\ (ReuseNotAccepted /\ ret = "returned") =>
          /\ rec.connection_id = NewConnB
          /\ rec.connection_id # ExistingConn
          /\ InviteeRecord.connection_id = NewConnB

C21_Witness ==
    /\ ReuseNotAccepted
    /\ hist.timed_out
    /\ ret = "returned"
    /\ rec.connection_id = NewConnB
    /\ invoked = <<"RFC23">>

\* C22 (as claimed): a call of receive_reuse_accepted_message that fails, at
\* whatever step, has emitted a "rejected" notification, raises the manager's
\* error, and has set no OobRecord to ACCEPTED.
C22_AcceptFailure ==
    [][\A m \in DOMAIN net : \A f \in AcceptFailPoints \cup {NoFailure} :
         (m.type = "accept" /\ ReceiveAccepted(m, f) /\ hist'.last.err # "none") =>
            /\ notes'.rejected_h = notes.rejected_h + 1
            /\ notes'.accepted = notes.accepted
            /\ hist'.last.err = "OutOfBandManagerError"
            /\ \A i \in DOMAIN oobB :
                  oobB'[i].state = STATE_ACCEPTED => oobB[i].state = STATE_ACCEPTED]_vars

\* C23: a problem report whose (pthid, thid) is the (invitation id, reuse
\* message id) of an OobRecord sets that record's state to NOT_ACCEPTED and
\* changes nothing else; when no record matches, nothing is changed and the
\* call raises the manager's error.
C23_ProblemReportFrame ==
    [][\A m \in DOMAIN net :
         (m.type = "problem" /\ ReceiveProblemReport(m, NoFailure)) =>
            LET hits == {i \in DOMAIN oobB : /\ oobB[i].invi_msg_id = m.pthid
                                              /\ oobB[i].reuse_msg_id = m.thid}
            IN  /\ connB' = connB /\ oobA' = oobA /\ connA' = connA
                /\ DOMAIN oobB' = DOMAIN oobB
                /\ \A i \in DOMAIN oobB \ hits : oobB'[i] = oobB[i]
                /\ \A i \in hits :
                      oobB'[i] = [oobB[i] EXCEPT !.state = STATE_NOT_ACCEPTED]
                /\ hits # {} => hist'.last = [op |-> "problem", err |-> "none"]
                /\ hits = {} => /\ oobB' = oobB
                                /\ hist'.last = [op |-> "problem",
                                                 err |-> "OutOfBandManagerError"]]_vars

C23_Witness ==
    /\ OobIdB \in DOMAIN oobB
    /\ InviteeRecord.state = STATE_NOT_ACCEPTED
    /\ InviteeRecord.connection_id = ExistingConn
    /\ hist.last = [op |-> "problem", err |-> "none"]

\* C24 (as claimed): when no listed protocol is supported, or the capability
\* of the selected protocol fails or gives no connection, _perform_handshake
\* raises the manager's error, has tried no other protocol, and the stored
\* OobRecord is as it was before the call.
C24_HandshakeFailure ==
    [][(/\ pc = "handshake" /\ pc' = "raised"
        /\ ret' # "ResolverError"
        /\ (SelectProtocol(inv.protos) = "none" \/ invoked' # invoked)) =>
            /\ ret' = "OutOfBandManagerError"
            /\ oobB' = oobB
            /\ Len(invoked') <= Len(invoked) + 1]_vars

\* C25: with an existing connection found and attached requests in the
\* invitation, no reuse message is sent, the record never awaits a response,
\* no handshake capability is invoked and no connection created, and the
\* attached request is dispatched with the record bound to the existing
\* connection before the record is returned in state DONE.
C25_ExistingWithAttachments ==
    (/\ pc # "idle"
     /\ inv.services = 1 /\ inv.did /\ inv.use_existing /\ inv.attach # "none"
     /\ ExistingConn \in DOMAIN connB) =>
        /\ ~hist.reuse_sent
        /\ net = <<>>
        /\ InviteeRecord.state = STATE_INITIAL
        /\ InviteeRecord.connection_id = ExistingConn
        /\ rec.connection_id = ExistingConn
        /\ invoked = <<>>
        /\ NewConnB \notin DOMAIN connB
        /\ keysB = 0
        /\ ret = "returned" => rec.state = STATE_DONE /\ dispatched = 1
        /\ pc = "done" <=> ret = "returned"

C25_Witness ==
    /\ ret = "returned"
    /\ inv.did /\ inv.use_existing /\ inv.attach = "wellformed"
    /\ inv.protos = <<"RFC23">>
    /\ ExistingConn \in DOMAIN connB
    /\ dispatched = 1
    /\ rec.connection_id = ExistingConn

\* C26: with attached requests and a connection bound, the request is not
\* dispatched (and the steps after the wait are not reached) before the
\* connection was seen ready or the readiness wait timed out; after a timeout
\* the request is still dispatched and the record returned in state DONE.
C26_DispatchAfterReady ==
    /\ (rec.connection_id # NoId /\ inv.attach # "none"
          /\ (dispatched > 0 \/ pc \in {"keygen", "dispatch"})) =>
          \/ hist.conn_timed_out
          \/ connB[rec.connection_id].ready
    /\ (hist.conn_timed_out /\ pc = "done") =>
          /\ ret = "returned"
          /\ rec.state = STATE_DONE
          /\ dispatched = 1
    /\ (hist.conn_timed_out /\ pc = "raised") =>
          \/ ret = "OutOfBandManagerError" /\ inv.attach = "malformed"
          \/ ret = "ProcessorError"

C26_Witness ==
    /\ hist.conn_timed_out
    /\ ret = "returned"
    /\ rec.state = STATE_DONE
    /\ dispatched = 1
    /\ ~connB[NewConnB].ready

\* C27: receive_invitation creates a key, and stores it as our_recipient_key,
\* exactly when the invitation has attached requests and the record has no
\* connection id when the request is dispatched; no receiver's record has
\* both a connection id and a key; the readiness wait and the key creation
\* never both happen.
C27_ConnectionlessKey ==
    /\ keysB \in {0, 1}
    /\ keysB = 1 =>
          /\ inv.attach # "none"
          /\ rec.connection_id = NoId /\ conn_rec = NoId
          /\ rec.our_recipient_key
          /\ InviteeRecord.our_recipient_key
          /\ ~hist.conn_timed_out /\ csub = "closed"
    /\ (pc \in {"dispatch", "done"} /\ inv.attach # "none"
          /\ rec.connection_id = NoId) => keysB = 1
    /\ pc \in {"conn_wait_read", "conn_wait_event"} =>
          /\ keysB = 0
          /\ rec.connection_id # NoId
    /\ pc = "keygen" => (conn_rec = NoId <=> rec.connection_id = NoId)
    /\ ~(rec.connection_id # NoId /\ rec.our_recipient_key)
    /\ \A i \in DOMAIN oobB :
          ~(oobB[i].connection_id # NoId /\ oobB[i].our_recipient_key)

C27_Witness ==
    /\ keysB = 1
    /\ ret = "returned"
    /\ rec.our_recipient_key
    /\ rec.connection_id = NoId
    /\ dispatched = 1

\* C28 (as claimed): at the step at which receive_invitation returns, the
\* stored OobRecord has the state and the connection id of the returned
\* record; a record returned in state DONE is stored in state DONE.
C28_ReturnedIsStored ==
    [][(ret # "returned" /\ ret' = "returned") =>
          /\ oobB'[OobIdB].state = rec'.state
          /\ oobB'[OobIdB].connection_id = rec'.connection_id]_vars

\* C29 (as claimed): a reuse-accept that answers the reuse message this agent
\* sent finds the initiating record by (invitation id, reuse message id) and
\* is processed without error, at whatever point of the initiator's steps it
\* arrives.
C29_AcceptFindsRecord ==
    [][\A m \in DOMAIN net :
         (/\ m.type = "accept"
          /\ hist.reuse_sent /\ pc # "raised"
          /\ m.thid = NewReuseMsgId /\ m.pthid = inv.id
          /\ ReceiveAccepted(m, NoFailure)) =>
            /\ hist'.last = [op |-> "accept", err |-> "none"]
            /\ oobB'[OobIdB].state = STATE_ACCEPTED]_vars

\* C30 (as claimed): an invitee's record whose stored state is ACCEPTED is
\* bound to the connection over which the reuse was requested, never to no
\* connection and never to a newly created one.
C30_AcceptedKeepsConnection ==
    \A i \in DOMAIN oobB :
        (oobB[i].role = ROLE_RECEIVER /\ oobB[i].state = STATE_ACCEPTED) =>
            oobB[i].connection_id = ExistingConn

\* C31: the inviter stores its record as ACCEPTED, with the reuse message id
\* and the reusing connection's id, and emits its notification before it
\* sends the reuse-accept: every reuse-accept on the wire, and every invitee's
\* record that is ACCEPTED, has an inviter's record of the same invitation
\* and reuse message that is ACCEPTED already.
C31_InviterAcceptedFirst ==
    /\ \A m \in DOMAIN net :
          m.type = "accept" =>
              /\ m.pthid \in DOMAIN oobA
              /\ oobA[m.pthid].state = STATE_ACCEPTED
              /\ oobA[m.pthid].invi_msg_id = m.pthid
              /\ oobA[m.pthid].reuse_msg_id = m.thid
              /\ oobA[m.pthid].connection_id = ExistingConn
              /\ notes.reuse >= 1
    /\ \A i \in DOMAIN oobB :
          oobB[i].state = STATE_ACCEPTED =>
              \E j \in DOMAIN oobA :
                  /\ oobA[j].state = STATE_ACCEPTED
                  /\ oobA[j].invi_msg_id = oobB[i].invi_msg_id
                  /\ oobA[j].reuse_msg_id = oobB[i].reuse_msg_id
    /\ notes.accepted > 0 => notes.reuse >= 1

C31_Witness ==
    /\ OobIdB \in DOMAIN oobB
    /\ InviteeRecord.state = STATE_ACCEPTED
    /\ notes.accepted = 1
    /\ notes.reuse = 1
    /\ \E m \in DOMAIN net : m.type = "accept" /\ net[m] >= 1
    /\ oobA[CreatedInvId].state = STATE_ACCEPTED

====
